---- MODULE Spec2Model ----
(***************************************************************************)
(* GUIOSGPerspectiveChanger (src/osgview/GUIOSGPerspectiveChanger.cpp):    *)
(* the camera-framing operations centerTo and setViewportFrom acting on    *)
(* the pose held by the camera manipulator.                                *)
(*                                                                         *)
(* Numbers.  The code computes in double.  The model computes in exact     *)
(* rational arithmetic, extended with the three non-finite values a        *)
(* division by zero produces (+inf, -inf, NaN), so every statement below   *)
(* is about the real-number result of the code's formulas; rounding is     *)
(* not modelled.  A number is a pair <<n, d>>: d > 0 and gcd(n, d) = 1 for *)
(* the rational n/d; <<1, 0>> is +inf, <<-1, 0>> is -inf, <<0, 0>> is NaN. *)
(*                                                                         *)
(* AngleRefs (src/utils/shapes/Visual.h) and ErrProbRefs                   *)
(* (src/utils/shapes/Signal.h): the sample tables and their addSample,     *)
(* under the specification SpecRefs.                                       *)
(***************************************************************************)
EXTENDS Integers, Sequences, FiniteSets, TLC

\* ------------------------------------------------------------- bounds
\* largest coordinate of a ground target of setViewportFrom
MaxCoord == 1
\* largest radius of a region of centerTo
MaxRadius == 2
\* number of calls made on the perspective changer in one run
MaxCalls == 2
\* largest key (velocity, distance) of a sample given to addSample
MaxKey == 1

\* ------------------------------------------------------------ numbers
Abs(i) == IF i < 0 THEN -i ELSE i

Sgn(i) == IF i < 0 THEN -1 ELSE IF i > 0 THEN 1 ELSE 0

RECURSIVE GCD(_, _)
GCD(a, b) == IF b = 0 THEN a ELSE GCD(b, a % b)

\* the number n/d in canonical form (d may be any integer; d = 0 gives the
\* non-finite value of the sign of n)
R(n, d) ==
    IF d = 0 THEN <<Sgn(n), 0>>
    ELSE LET g == GCD(Abs(n), Abs(d))
         IN  <<Sgn(d) * (n \div g), Abs(d) \div g>>

I(n) == <<n, 1>>

NaN == <<0, 0>>

IsNaN(a) == a = NaN

IsFinite(a) == a[2] # 0

\* a + b (inf + inf of one sign is that inf, inf - inf is NaN)
RAdd(a, b) ==
    IF IsFinite(a) /\ IsFinite(b)
    THEN LET g == GCD(a[2], b[2])
         IN  R(a[1] * (b[2] \div g) + b[1] * (a[2] \div g), (a[2] \div g) * b[2])
    ELSE IF IsNaN(a) \/ IsNaN(b) THEN NaN
    ELSE IF ~IsFinite(a) /\ ~IsFinite(b) THEN (IF a = b THEN a ELSE NaN)
    ELSE IF IsFinite(a) THEN b ELSE a

RNeg(a) == <<-a[1], a[2]>>

RSub(a, b) == RAdd(a, RNeg(b))

\* a * b (inf * 0 is NaN); common factors are cancelled before multiplying
RMul(a, b) ==
    IF IsFinite(a) /\ IsFinite(b) /\ a[1] # 0 /\ b[1] # 0
    THEN LET g == GCD(Abs(a[1]), b[2])
             h == GCD(Abs(b[1]), a[2])
         IN  R((a[1] \div g) * (b[1] \div h), (a[2] \div h) * (b[2] \div g))
    ELSE R(a[1] * b[1], a[2] * b[2])

\* a / b (x / 0 is an infinity of the sign of x, 0 / 0 and inf / inf are NaN)
RDiv(a, b) ==
    IF IsFinite(b) /\ b[1] = 0 THEN R(a[1], 0)
    ELSE RMul(a, <<b[2] * Sgn(b[1]), Abs(b[1])>>)

\* the comparisons of double: every comparison with NaN is false, except !=
RLt(a, b) ==
    /\ ~IsNaN(a)
    /\ ~IsNaN(b)
    /\ IF ~IsFinite(a) /\ ~IsFinite(b) THEN a[1] < b[1]
       ELSE IF ~IsFinite(a) THEN a[1] < 0
       ELSE IF ~IsFinite(b) THEN b[1] > 0
       ELSE LET g == GCD(a[2], b[2])
            IN  a[1] * (b[2] \div g) < b[1] * (a[2] \div g)

RGt(a, b) == RLt(b, a)

REq(a, b) == ~IsNaN(a) /\ ~IsNaN(b) /\ a = b

RGe(a, b) == RGt(a, b) \/ REq(a, b)

RNe(a, b) == ~REq(a, b)

\* largest k with k * k <= n
RECURSIVE ISqrtFrom(_, _)
ISqrtFrom(n, k) == IF (k + 1) * (k + 1) > n THEN k ELSE ISqrtFrom(n, k + 1)

ISqrt(n) == ISqrtFrom(n, 0)

IsSquare(n) == n >= 0 /\ ISqrt(n) * ISqrt(n) = n

\* the numbers whose square root is a number of the model
ExactRoot(a) == ~IsFinite(a) \/ (IsSquare(a[1]) /\ IsSquare(a[2]))

\* sqrt(a): NaN for a negative argument
RSqrt(a) ==
    IF ~IsFinite(a) THEN (IF a[1] > 0 THEN a ELSE NaN)
    ELSE IF a[1] < 0 THEN NaN
    ELSE R(ISqrt(a[1]), ISqrt(a[2]))

\* ------------------------------------------------------------ vectors
\* osg::Vec3d: a triple of numbers
V(x, y, z) == <<I(x), I(y), I(z)>>

\* osg::Vec3d(): the default constructor sets every component to 0
Zero3 == V(0, 0, 0)

X_AXIS == V(1, 0, 0)

Z_AXIS == V(0, 0, 1)

VAdd(a, b) == <<RAdd(a[1], b[1]), RAdd(a[2], b[2]), RAdd(a[3], b[3])>>

VSub(a, b) == <<RSub(a[1], b[1]), RSub(a[2], b[2]), RSub(a[3], b[3])>>

VNeg(a) == <<RNeg(a[1]), RNeg(a[2]), RNeg(a[3])>>

\* vector * scalar
VScale(a, k) == <<RMul(a[1], k), RMul(a[2], k), RMul(a[3], k)>>

\* vector / scalar
VDiv(a, k) == <<RDiv(a[1], k), RDiv(a[2], k), RDiv(a[3], k)>>

\* operator* of two vectors: the dot product
Dot(a, b) == RAdd(RAdd(RMul(a[1], b[1]), RMul(a[2], b[2])), RMul(a[3], b[3]))

\* operator^ of two vectors: the cross product
Cross(a, b) ==
    << RSub(RMul(a[2], b[3]), RMul(a[3], b[2])),
       RSub(RMul(a[3], b[1]), RMul(a[1], b[3])),
       RSub(RMul(a[1], b[2]), RMul(a[2], b[1])) >>

Length2(a) == Dot(a, a)

Length(a) == RSqrt(Length2(a))

\* Vec3d::normalize(): scales by 1 / length when the length is > 0 and
\* leaves the vector as it is otherwise
Normalize(a) ==
    LET norm == Length(a)
    IN  IF RGt(norm, I(0)) THEN VScale(a, RDiv(I(1), norm)) ELSE a

VFinite(a) == IsFinite(a[1]) /\ IsFinite(a[2]) /\ IsFinite(a[3])

\* --------------------------------------------------------- projection
\* The vertical field of view that getProjectionMatrixAsPerspective hands
\* out is held as q = tan(fovy / 4), so that the cosine and the sine of
\* halfFovy = DEG2RAD(.5 * fovy) are numbers of the model:
\*   q = 0   fovy = 0           q = 1/3  fovy ~ 73.7 degrees
\*   q = 1/2 fovy ~ 106.3       q = 1    fovy = 180 degrees
FovyValues == {I(0), R(1, 3), R(1, 2), I(1)}

\* cos(halfFovy) = (1 - q^2) / (1 + q^2)
CosHalf(q) == RDiv(RSub(I(1), RMul(q, q)), RAdd(I(1), RMul(q, q)))

\* sin(halfFovy) = 2q / (1 + q^2)
SinHalf(q) == RDiv(RMul(I(2), q), RAdd(I(1), RMul(q, q)))

\* ------------------------------------------------ camera manipulator
\* osg::Matrix::makeLookAt(eye, center, up), handed to the manipulator by
\* setByInverseMatrix: the view matrix, held by its eye, its unit look
\* vector f and its up vector u = s ^ f, s = f ^ up, each normalised.  A
\* zero vector stays zero: an up parallel to the look vector (the bird view
\* of a level camera whose up is the z axis) gives u = (0, 0, 0).
makeLookAt(eye, center, upv) ==
    LET f == Normalize(VSub(center, eye))
        s == Normalize(Cross(f, upv))
        u == Normalize(Cross(s, f))
    IN  [eye |-> eye, f |-> f, u |-> u]

\* getInverseMatrix().getLookAt(lookFrom, lookAt, up) with the default
\* look distance 1: the eye, the point one unit along the look vector, up
getLookAt(m) == [lookFrom |-> m.eye, lookAt |-> VAdd(m.eye, m.f), up |-> m.u]

\* the square lengths whose roots makeLookAt takes
LookAtRoots(eye, center, upv) ==
    LET f == Normalize(VSub(center, eye))
        s == Normalize(Cross(f, upv))
    IN  {Length2(VSub(center, eye)), Length2(Cross(f, upv)), Length2(Cross(s, f))}

VARIABLES
    cam,         \* myCameraManipulator: the view matrix [eye, f, u]
    home,        \* its home position [eye, center, up]
    fovy,        \* the camera's projection: vertical field of view (as q)
    call,        \* the last call made: its arguments and its locals
    calls        \* number of calls made

VARIABLES
    angleRefs,   \* an AngleRefs: the vector of its samples [k, v]
    errProbRefs, \* an ErrProbRefs: the vector of its samples [k, v]
    added        \* the last addSample made: its table, its sample, the
                 \* table's contents before it

camVars == <<cam, home, fovy, call, calls>>

refVars == <<angleRefs, errProbRefs, added>>

vars == <<camVars, refVars>>

\* ------------------------------------------------------------ centerTo
\* fault variant of orthoDirOf: the test of line 108 inverted
orthoDirOfInverted(dir) ==
    IF REq(Dot(dir, Z_AXIS), I(0)) THEN VNeg(X_AXIS)
    ELSE <<RNeg(dir[2]), dir[1], I(0)>>

\* lines 107-114: the helper direction before it is normalised
orthoDirOf(dir) ==
    IF RNe(Dot(dir, Z_AXIS), I(0)) THEN VNeg(X_AXIS)
    ELSE <<RNeg(dir[2]), dir[1], I(0)>>

\* line 124
outerFovOf(dir, orthoDir, q) ==
    VAdd(VScale(dir, CosHalf(q)), VScale(orthoDir, SinHalf(q)))

\* fault variant of signOf: the comparison of line 126 turned round
signOfFlipped(outerFov, radiusVec, dir) ==
    IF RLt(Dot(Cross(outerFov, radiusVec), Cross(outerFov, dir)), I(0)) THEN 1 ELSE -1

\* line 126
signOf(outerFov, radiusVec, dir) ==
    IF RGt(Dot(Cross(outerFov, radiusVec), Cross(outerFov, dir)), I(0)) THEN 1 ELSE -1

\* line 127
camUpdateOf(center, dir, sign, outerFov, radiusVec) ==
    VAdd(center,
         VDiv(VScale(VScale(dir, I(sign)), Length(Cross(outerFov, radiusVec))),
              Length(Cross(outerFov, dir))))

\* lines 104-127: the locals of centerTo(pos, radius, _) on the pose p
centerToLocals(p, q, pos, radius) ==
    LET dir        == VSub(p.lookAt, p.lookFrom)
        orthoDir0  == orthoDirOf(dir)
        orthoDir   == Normalize(orthoDir0)
        center     == pos
        leftBorder == VAdd(center, VScale(orthoDir, radius))
        rightBorder == VSub(center, VScale(orthoDir, radius))
        outerFov   == outerFovOf(dir, orthoDir, q)
        radiusVec  == VSub(leftBorder, center)
        sign       == signOf(outerFov, radiusVec, dir)
    IN  [ op |-> "centerTo", rd |-> p, dir |-> dir, radius |-> radius, fovy |-> q,
          orthoDir0 |-> orthoDir0, orthoDir |-> orthoDir, center |-> center,
          leftBorder |-> leftBorder, rightBorder |-> rightBorder,
          outerFov |-> outerFov, radiusVec |-> radiusVec,
          divisor |-> Length(Cross(outerFov, dir)), sign |-> sign,
          camUpdate |-> camUpdateOf(center, dir, sign, outerFov, radiusVec),
          roots |-> {Length2(orthoDir0), Length2(Cross(outerFov, radiusVec)),
                     Length2(Cross(outerFov, dir))} ]

\* osgGA manipulator home(): the home position becomes the pose
homePose(h) == makeLookAt(h.eye, h.center, h.up)

\* lines 100-132 (a set of one element binds a value that is computed once)
centerTo(pos, radius, applyZoom) ==
    /\ calls < MaxCalls
    /\ \E l \in {centerToLocals(getLookAt(cam), fovy, pos, radius)} :
       \E h \in {[eye |-> l.camUpdate, center |-> l.center, up |-> l.rd.up]} :
           /\ home' = h
           /\ cam' = homePose(h)
           /\ call' = [l EXCEPT !.roots = @ \cup LookAtRoots(h.eye, h.center, h.up)]
    /\ calls' = calls + 1
    /\ UNCHANGED <<fovy, refVars>>

\* ----------------------------------------------------- setViewportFrom
\* fault variant of birdView: the case dir.z() == 0. left out
birdViewNoHorizontal(dir, lookFrom) ==
    RGt(dir[3], I(0)) /\ RGe(lookFrom[3], I(0))

\* line 148: the condition of the bird view
birdView(dir, lookFrom) ==
    (RGt(dir[3], I(0)) /\ RGe(lookFrom[3], I(0))) \/ REq(dir[3], I(0))

\* fault variant of factorOf: the minus sign of line 156 left out
factorOfNoMinus(lookFrom, dir) == RDiv(lookFrom[3], dir[3])

\* line 156
factorOf(lookFrom, dir) == RDiv(RNeg(lookFrom[3]), dir[3])

\* fault variant of shiftOf: the ground target not subtracted
shiftOfAbsolute(xPos, yPos, groundTarget) == <<xPos, yPos, Zero3[3]>>

\* fault variant of shiftOf: line 159 reads groundTarget.x()
shiftOfSwapped(xPos, yPos, groundTarget) ==
    <<RSub(xPos, groundTarget[1]), RSub(yPos, groundTarget[1]), Zero3[3]>>

\* lines 154-159: shift is a default-constructed vector whose x and y are set
shiftOf(xPos, yPos, groundTarget) ==
    <<RSub(xPos, groundTarget[1]), RSub(yPos, groundTarget[2]), Zero3[3]>>

\* line 160
shiftedLookFrom(lookFrom, shift) == VAdd(lookFrom, shift)

\* fault variant of shiftedLookAt: line 161 left out
shiftedLookAtUnshifted(lookAt, shift) == lookAt

\* line 161
shiftedLookAt(lookAt, shift) == VAdd(lookAt, shift)

\* lines 145-162: the locals of setViewportFrom(xPos, yPos, _) on the pose p
setViewportFromLocals(p, xPos, yPos) ==
    LET dir == VSub(p.lookAt, p.lookFrom)
    IN  IF birdView(dir, p.lookFrom)
        THEN LET lookFrom == <<xPos, yPos, p.lookFrom[3]>>
             IN  [ op |-> "setViewportFrom", rd |-> p, dir |-> dir, x |-> xPos, y |-> yPos,
                   bird |-> TRUE, divisors |-> {},
                   wr |-> [lookFrom |-> lookFrom,
                           lookAt |-> VSub(lookFrom, V(0, 0, 1)), up |-> p.up] ]
        ELSE LET factor       == factorOf(p.lookFrom, dir)
                 groundTarget == VAdd(p.lookFrom, VScale(dir, factor))
                 shift        == shiftOf(xPos, yPos, groundTarget)
             IN  [ op |-> "setViewportFrom", rd |-> p, dir |-> dir, x |-> xPos, y |-> yPos,
                   bird |-> FALSE, divisors |-> {dir[3]},
                   wr |-> [lookFrom |-> shiftedLookFrom(p.lookFrom, shift),
                           lookAt |-> shiftedLookAt(p.lookAt, shift), up |-> p.up] ]

\* lines 141-166
setViewportFrom(xPos, yPos, zPos) ==
    /\ calls < MaxCalls
    /\ \E l \in {setViewportFromLocals(getLookAt(cam), xPos, yPos)} :
           /\ cam' = makeLookAt(l.wr.lookFrom, l.wr.lookAt, l.wr.up)
           /\ call' = l @@
                [ again |-> call.op = "setViewportFrom" /\ call.x = xPos /\ call.y = yPos,
                  firstBird |-> call.op = "setViewportFrom" /\ call.bird,
                  roots |-> LookAtRoots(l.wr.lookFrom, l.wr.lookAt, l.wr.up) ]
    /\ calls' = calls + 1
    /\ UNCHANGED <<home, fovy, refVars>>

\* lines 135-138
setViewport(zoom, xPos, yPos) == setViewportFrom(xPos, yPos, I(0))

\* lines 51-72: the accessors
getXPos == getLookAt(cam).lookFrom[1]

getYPos == getLookAt(cam).lookFrom[2]

getZPos == getLookAt(cam).lookFrom[3]

\* ------------------------------------------------------ sample tables
\* A sample AngleRef(velocity, angle) or ErrProbRef(distance, errProb) is
\* [k |-> key, v |-> value]; the two table classes have the same code.

\* Visual.h lines 93-101, Signal.h lines 90-98
exists(refs, key) == \E i \in 1..Len(refs) : REq(refs[i].k, key)

\* fault variant of compare_asc: the comparison turned round
compare_ascGreater(x1, x2) == RGt(x1.k, x2.k)

\* Visual.h lines 186-189, Signal.h lines 183-186
compare_asc(x1, x2) == RLt(x1.k, x2.k)

\* the vector refs with x put before the first element that x compares
\* less than
RECURSIVE Insert(_, _)
Insert(refs, x) ==
    IF refs = <<>> THEN <<x>>
    ELSE IF compare_asc(x, Head(refs)) THEN <<x>> \o refs
    ELSE <<Head(refs)>> \o Insert(Tail(refs), x)

\* Visual.h lines 191-194, Signal.h lines 188-191: std::sort under
\* compare_asc, a permutation that is ordered by it.  Keys that compare
\* (they are never NaN here) and differ leave one such permutation, so the
\* order in which it is built does not show.
RECURSIVE sort_asc(_)
sort_asc(refs) ==
    IF refs = <<>> THEN <<>>
    ELSE Insert(sort_asc(SubSeq(refs, 1, Len(refs) - 1)), refs[Len(refs)])

\* Visual.h lines 103-109, Signal.h lines 100-106
addSample(refs, data) ==
    sort_asc(IF ~exists(refs, data.k) THEN Append(refs, data) ELSE refs)

\* AngleRefs::addSample(data)
AngleRefs_addSample(data) ==
    /\ angleRefs' = addSample(angleRefs, data)
    /\ added' = [op |-> "AngleRefs", data |-> data, before |-> angleRefs]
    /\ UNCHANGED <<errProbRefs, camVars>>

\* ErrProbRefs::addSample(data)
ErrProbRefs_addSample(data) ==
    /\ errProbRefs' = addSample(errProbRefs, data)
    /\ added' = [op |-> "ErrProbRefs", data |-> data, before |-> errProbRefs]
    /\ UNCHANGED <<angleRefs, camVars>>

\* ------------------------------------------------------ specification
\* camera attitudes <<look vector, up>>: orthonormal, as a view matrix holds
\* them: straight down, oblique down (two), horizontal, straight up, oblique up
Frames ==
    { <<V(0, 0, -1), V(0, 1, 0)>>,
      << <<R(3, 5), I(0), R(-4, 5)>>, <<R(4, 5), I(0), R(3, 5)>> >>,
      << <<R(12, 13), R(3, 13), R(-4, 13)>>, <<R(3, 13), R(4, 13), R(12, 13)>> >>,
      << <<R(3, 5), R(4, 5), I(0)>>, V(0, 0, 1) >>,
      <<V(0, 0, 1), V(0, 1, 0)>>,
      << <<R(3, 5), I(0), R(4, 5)>>, <<R(-4, 5), I(0), R(3, 5)>> >> }

\* camera heights: below, on and above the ground plane
Heights == {-1, 0, 2}

\* ground targets of setViewportFrom / setViewport
Targets == {<<I(x), I(y)>> : x \in {-1, MaxCoord}, y \in {0, MaxCoord}}

\* region centres and radii of centerTo
Centers == {V(0, 0, 0), V(1, -1, 1)}

Radii == {I(1), I(MaxRadius)}

Init ==
    /\ \E fr \in Frames, h \in Heights :
          cam = [eye |-> V(1, 2, h), f |-> fr[1], u |-> fr[2]]
    /\ home = [eye |-> V(0, -1, 0), center |-> V(0, 0, 0), up |-> V(0, 0, 1)]
    /\ fovy \in FovyValues
    /\ call = [op |-> "none"]
    /\ calls = 0
    /\ angleRefs = <<>>
    /\ errProbRefs = <<>>
    /\ added = [op |-> "none"]

Next ==
    \/ \E pos \in Centers, radius \in Radii, applyZoom \in BOOLEAN :
          centerTo(pos, radius, applyZoom)
    \/ \E t \in Targets, zPos \in {I(0)} : setViewportFrom(t[1], t[2], zPos)
    \/ \E zoom \in {I(100)}, t \in Targets : setViewport(zoom, t[1], t[2])

Spec == Init /\ [][Next]_vars

\* every square root taken so far is the root of a square: the lengths of
\* the model are the lengths of the code
RootsExact == call.op \in {"centerTo", "setViewportFrom"} => \A a \in call.roots : ExactRoot(a)

\* keys of the samples: velocities in km/h, distances in metres (numbers;
\* a NaN is no velocity and no distance)
Keys == {I(k) : k \in -1..MaxKey}

\* angles in degrees, error probabilities
Angles == {I(30), I(60)}

ErrProbs == {I(0), R(1, 4)}

\* the default-constructed tables (Visual.h line 88, Signal.h line 85),
\* beside a camera that is left alone
InitRefs ==
    /\ cam = [eye |-> V(1, 2, 2), f |-> V(0, 0, -1), u |-> V(0, 1, 0)]
    /\ home = [eye |-> V(0, -1, 0), center |-> V(0, 0, 0), up |-> V(0, 0, 1)]
    /\ fovy = R(1, 3)
    /\ call = [op |-> "none"]
    /\ calls = 0
    /\ angleRefs = <<>>
    /\ errProbRefs = <<>>
    /\ added = [op |-> "none"]

NextRefs ==
    \/ \E k \in Keys, v \in Angles : AngleRefs_addSample([k |-> k, v |-> v])
    \/ \E k \in Keys, v \in ErrProbs : ErrProbRefs_addSample([k |-> k, v |-> v])

SpecRefs == InitRefs /\ [][NextRefs]_vars

\* ------------------------------------------------------------- claims
\* the pose the manipulator holds, as the next call reads it
Pose == getLookAt(cam)

\* a pose in the sense of the data model: three finite vectors
PoseFinite(p) == VFinite(p.lookFrom) /\ VFinite(p.lookAt) /\ VFinite(p.up)

\* the point where the line from `from` along `d` meets the plane z = 0
GroundPoint(from, d) == VAdd(from, VScale(d, RDiv(RNeg(from[3]), d[3])))

\* the last call was setViewportFrom, read a finite pose and, by the
\* condition of the claims (not by the model's branch), shifts the view
ShiftCase ==
    /\ call.op = "setViewportFrom"
    /\ PoseFinite(call.rd)
    /\ RNe(call.dir[3], I(0))
    /\ ~(RGt(call.dir[3], I(0)) /\ RGe(call.rd.lookFrom[3], I(0)))

\* C1: after setViewportFrom(x, y, _) in the oriented-shift case, the line
\* from the new position along the new view direction newLookAt - newPos
\* meets the plane z = 0 exactly at (x, y); so does the line of the pose the
\* manipulator then holds.
C1_GroundIntersection ==
    ShiftCase =>
        /\ GroundPoint(call.wr.lookFrom, VSub(call.wr.lookAt, call.wr.lookFrom))
              = <<call.x, call.y, I(0)>>
        /\ GroundPoint(Pose.lookFrom, VSub(Pose.lookAt, Pose.lookFrom))
              = <<call.x, call.y, I(0)>>

\* C1 witness: an oblique camera above the ground was shifted to a target
\* that is not the point it looked at before
C1_Witness ==
    /\ ShiftCase
    /\ RNe(call.dir[1], I(0))
    /\ RGt(call.rd.lookFrom[3], I(0))
    /\ call.wr.lookFrom # call.rd.lookFrom

\* C2: a second setViewportFrom(x, y, _) with the same (x, y), made right
\* after the first on a finite pose, leaves the manipulator with exactly
\* the pose (position, lookAt, up) the first call produced.
C2_Idempotent ==
    (call.op = "setViewportFrom" /\ call.again /\ PoseFinite(call.rd)) => Pose = call.rd

\* C2 witness: the second of two equal calls, the first of which took the
\* bird view branch and moved the camera
C2_Witness ==
    /\ call.op = "setViewportFrom"
    /\ call.again
    /\ call.firstBird
    /\ PoseFinite(call.rd)
    /\ call.rd.lookFrom[1] = call.x

\* the other case of C2: the second of two equal calls, both shifting an
\* oblique view
C2_WitnessShift ==
    /\ call.op = "setViewportFrom"
    /\ call.again
    /\ ~call.firstBird
    /\ ShiftCase
    /\ RNe(call.dir[1], I(0))

\* C3: with the view direction (0, 0, -1) and position.z >= 0,
\* setViewportFrom(x, y, _) writes newPos = (x, y, position.z) and
\* newLookAt = (x, y, position.z - 1).
C3_BirdsEyeSnap ==
    ( /\ call.op = "setViewportFrom"
      /\ call.dir = V(0, 0, -1)
      /\ RGe(call.rd.lookFrom[3], I(0)) ) =>
        /\ call.wr.lookFrom = <<call.x, call.y, call.rd.lookFrom[3]>>
        /\ call.wr.lookAt = <<call.x, call.y, RSub(call.rd.lookFrom[3], I(1))>>

\* C3 witness: a camera looking straight down from above the ground was
\* moved to another (x, y)
C3_Witness ==
    /\ call.op = "setViewportFrom"
    /\ call.dir = V(0, 0, -1)
    /\ RGt(call.rd.lookFrom[3], I(0))
    /\ call.rd.lookFrom[1] # call.x
    /\ call.rd.lookFrom[2] # call.y

\* C4: in the oriented-shift case the view direction written equals the view
\* direction read, position.z is unchanged (the shift has no z component)
\* and the up vector written is the up vector read.
C4_DirectionPreserved ==
    ShiftCase =>
        /\ VSub(call.wr.lookAt, call.wr.lookFrom) = VSub(call.rd.lookAt, call.rd.lookFrom)
        /\ VSub(call.wr.lookFrom, call.rd.lookFrom)[3] = I(0)
        /\ VSub(call.wr.lookAt, call.rd.lookAt)[3] = I(0)
        /\ call.wr.up = call.rd.up

\* C4 witness: a shift that moved the camera in x and in y
C4_Witness ==
    /\ ShiftCase
    /\ RNe(call.wr.lookFrom[1], call.rd.lookFrom[1])
    /\ RNe(call.wr.lookFrom[2], call.rd.lookFrom[2])

\* cos(fovy) = cos^2(halfFovy) - sin^2(halfFovy)
CosFovy(q) == RSub(RMul(CosHalf(q), CosHalf(q)), RMul(SinHalf(q), SinHalf(q)))

\* a field of view strictly between 0 and 180 degrees
ValidFovy(q) == RGt(q, I(0)) /\ RLt(q, I(1))

\* the angle between the vectors a and b is at most the angle of cosine c
\* (both in 0..180 degrees): cos(a, b) = a.b / (|a| |b|) >= c, without roots
AngleAtMost(a, b, c) ==
    LET n  == Dot(a, b)
        m2 == RMul(Length2(a), Length2(b))
    IN  /\ IsFinite(n) /\ IsFinite(m2) /\ RGt(m2, I(0))
        /\ IF RGe(n, I(0))
           THEN RLt(c, I(0)) \/ RGe(RMul(n, n), RMul(RMul(c, c), m2))
           ELSE RLt(c, I(0)) /\ RGe(RMul(RMul(c, c), m2), RMul(n, n))

\* the last call was centerTo with radius > 0, on a finite pose with a
\* direction that is not zero, under a field of view in (0, 180)
FramingCase ==
    /\ call.op = "centerTo"
    /\ PoseFinite(call.rd)
    /\ call.dir # Zero3
    /\ RGt(call.radius, I(0))
    /\ ValidFovy(call.fovy)

\* C5: after centerTo(center, radius, _) the angle subtended at the new camera
\* position by the edge points center + orthoDir * radius and
\* center - orthoDir * radius is at most the vertical field of view.
C5_Containment ==
    FramingCase =>
        AngleAtMost(VSub(call.leftBorder, call.camUpdate),
                    VSub(call.rightBorder, call.camUpdate), CosFovy(call.fovy))

\* C6: centerTo writes lookAt = center and a position newPos with
\* center - newPos a positive multiple of the direction read: the camera is
\* put behind center along -dir.
C6_KeepsDirection ==
    FramingCase =>
        /\ home.center = call.center
        /\ home.eye = call.camUpdate
        /\ VFinite(call.camUpdate)
        /\ Cross(VSub(call.center, call.camUpdate), call.dir) = Zero3
        /\ RGt(Dot(VSub(call.center, call.camUpdate), call.dir), I(0))
        /\ Pose.lookFrom = call.camUpdate
        /\ VSub(Pose.lookAt, Pose.lookFrom) = call.dir

\* C6 witness: an oblique view (dir.z # 0, not vertical) was framed
C6_Witness ==
    /\ FramingCase
    /\ RNe(call.dir[3], I(0))
    /\ RNe(call.dir[2], I(0))
    /\ call.sign = -1

\* the cross product outerFov x dir of the last centerTo has length zero
Degenerate == call.op = "centerTo" /\ REq(call.divisor, I(0))

\* C7: a centerTo in a degenerate geometry pushes no pose: the pose read
\* after the call is the pose read before it.
C7_DegenerateLeavesPose == Degenerate => Pose = call.rd

\* C8: with the direction parallel to the vertical axis and a field of view
\* in (0, 180), centerTo divides by a length that is not zero, normalises a
\* helper direction that is not zero and writes a finite pose.
C8_VerticalFallback ==
    ( /\ FramingCase
      /\ REq(call.dir[1], I(0)) /\ REq(call.dir[2], I(0)) /\ RNe(call.dir[3], I(0)) ) =>
        /\ RNe(call.divisor, I(0))
        /\ IsFinite(call.divisor)
        /\ call.orthoDir0 # Zero3
        /\ VFinite(call.camUpdate)
        /\ PoseFinite(Pose)
        /\ Pose.lookAt # Pose.lookFrom

\* C8 witness: a camera looking straight up was framed
C8_Witness ==
    /\ FramingCase
    /\ call.dir = V(0, 0, 1)
    /\ call.orthoDir0 = VNeg(X_AXIS)

\* C9: setViewportFrom takes the bird view branch exactly when
\* (dir.z > 0 and position.z >= 0) or dir.z == 0, then writes
\* newPos = (x, y, position.z) and newLookAt = newPos - (0, 0, 1); the
\* factor -position.z / dir.z is never computed with dir.z == 0.
C9_ModeSelection ==
    call.op = "setViewportFrom" =>
        /\ call.bird <=> ( \/ RGt(call.dir[3], I(0)) /\ RGe(call.rd.lookFrom[3], I(0))
                           \/ REq(call.dir[3], I(0)) )
        /\ call.bird =>
              /\ call.wr.lookFrom = <<call.x, call.y, call.rd.lookFrom[3]>>
              /\ call.wr.lookAt = VSub(call.wr.lookFrom, V(0, 0, 1))
        /\ \A d \in call.divisors : RNe(d, I(0))
        /\ ~call.bird => call.divisors = {call.dir[3]}

\* C9 witness: a horizontal view (dir.z == 0) below the ground was snapped
\* to the bird view
C9_Witness ==
    /\ call.op = "setViewportFrom"
    /\ call.bird
    /\ REq(call.dir[3], I(0))
    /\ RLt(call.rd.lookFrom[3], I(0))
    /\ call.dir # Zero3

\* C10: if dir is not parallel to the vertical axis, centerTo uses the
\* normalised horizontal perpendicular (-dir.y, dir.x, 0) (its unit length,
\* its direction and its orientation are stated without a root); (-1, 0, 0)
\* is the fallback only of a dir parallel to the vertical axis.
C10_HelperDirection ==
    ( /\ call.op = "centerTo"
      /\ PoseFinite(call.rd)
      /\ RNe(call.dir[1], I(0)) \/ RNe(call.dir[2], I(0)) ) =>
        LET perp == <<RNeg(call.dir[2]), call.dir[1], I(0)>>
        IN  /\ call.orthoDir0 = perp
            /\ Length2(call.orthoDir) = I(1)
            /\ Cross(call.orthoDir, perp) = Zero3
            /\ RGt(Dot(call.orthoDir, perp), I(0))

\* the table the last addSample was made on
AddedTable == IF added.op = "AngleRefs" THEN angleRefs ELSE errProbRefs

\* the keys of refs ascend strictly
StrictlyAscending(refs) == \A i \in 1..(Len(refs) - 1) : RLt(refs[i].k, refs[i + 1].k)

\* C11: from empty tables, after any sequence of addSample calls the
\* entries of an AngleRefs and of an ErrProbRefs ascend strictly by key, so
\* no two entries share a key; an addSample whose key is already present
\* leaves the table as it was (the value first stored for the key stays),
\* and one whose key is new adds its sample to the entries there were.
C11_TablesMonotonic ==
    /\ StrictlyAscending(angleRefs)
    /\ StrictlyAscending(errProbRefs)
    /\ \A i, j \in 1..Len(angleRefs) : i # j => angleRefs[i].k # angleRefs[j].k
    /\ \A i, j \in 1..Len(errProbRefs) : i # j => errProbRefs[i].k # errProbRefs[j].k
    /\ added.op # "none" =>
          IF \E i \in 1..Len(added.before) : added.before[i].k = added.data.k
          THEN AddedTable = added.before
          ELSE {AddedTable[i] : i \in 1..Len(AddedTable)}
                  = {added.before[i] : i \in 1..Len(added.before)} \cup {added.data}

\* C11 witness: a sample was added to an AngleRefs of three entries, under
\* a key the table held with another angle; and the ErrProbRefs got a key
\* below the keys it held
C11_Witness ==
    /\ added.op = "AngleRefs"
    /\ Len(added.before) = 3
    /\ \E i \in 1..3 : added.before[i].k = added.data.k /\ added.before[i].v # added.data.v
    /\ Len(errProbRefs) >= 2

\* the other case of C11: the last sample added has the smallest key of a
\* table of three entries, which held two
C11_WitnessFront ==
    /\ added.op = "ErrProbRefs"
    /\ Len(added.before) = 2
    /\ Len(errProbRefs) = 3
    /\ errProbRefs[1] = added.data

====
